---- MODULE Spec2Model ----
(***************************************************************************)
(* Model of pcs.lib.corosync.config_facade.ConfigFacade: the quorum and    *)
(* quorum-device facade over a parsed corosync.conf section tree.          *)
(*                                                                         *)
(* A section is a record [name, attrs, secs]: attrs is the ordered list of *)
(* <<key, value>> pairs, secs the ordered list of child sections.  The     *)
(* facade's tree (self._config) is the root section.                       *)
(*                                                                         *)
(* SpecProperty models pcs.lib.commands.cluster_property: the loop of      *)
(* _get_property_facade_list over the pacemaker daemons and its caller.    *)
(***************************************************************************)
EXTENDS Integers, Sequences, FiniteSets, TLC

VARIABLES
    config,     \* self._config: the root section of the facade
    prev,       \* the tree as it was when the last call started
    last,       \* the last facade call: [op, ...arguments]
    result,     \* "none" between calls, else how the call ended: "ok", "LibraryError", "IndexError"
    reports,    \* the report items the last call handed to the report processor / raised
    calls,      \* number of facade calls made so far
    pc,                             \* where get_cluster_properties_definition stands
    report_processor,               \* env.report_processor: [report_list, has_errors]
    cluster_property_facade_list,   \* the local list of _get_property_facade_list
    attempted,                      \* the daemon names the factory was asked for, in order
    property_dict                   \* the sources merged into property_dict, in order

\* the state of the corosync facade and of the cluster property command
facade_vars == <<config, prev, last, result, reports, calls>>

property_vars ==
    <<pc, report_processor, cluster_property_facade_list, attempted,
      property_dict>>

vars == <<facade_vars, property_vars>>

\* Python's None
None == "<None>"

(***************************************************************************)
(* config_parser.Section (pcs/lib/corosync/config_parser.py)               *)
(***************************************************************************)
Section(name, attrs, secs) == [name |-> name, attrs |-> attrs, secs |-> secs]

\* Section.get_sections(name): the children called name, in order
get_sections(sec, name) == SelectSeq(sec.secs, LAMBDA s : s.name = name)

\* Section.get_attributes(name): the attributes called name, in order
get_attributes(sec, name) == SelectSeq(sec.attrs, LAMBDA a : a[1] = name)

\* Section.del_attributes_by_name(name): removes every attribute called name
del_attributes_by_name(sec, name) ==
    [sec EXCEPT !.attrs = SelectSeq(sec.attrs, LAMBDA a : a[1] # name)]

\* index of the first attribute called name (0 when there is none)
FirstAttr(attrs, name) ==
    IF \E i \in 1..Len(attrs) : attrs[i][1] = name
    THEN CHOOSE i \in 1..Len(attrs) :
            /\ attrs[i][1] = name
            /\ \A j \in 1..(i-1) : attrs[j][1] # name
    ELSE 0

\* Section.set_attribute(name, value): appends when absent; otherwise the first
\* occurrence takes the value, in place, and every other occurrence is dropped
set_attribute(sec, name, value) ==
    LET f == FirstAttr(sec.attrs, name)
        idx == {i \in 1..Len(sec.attrs) : sec.attrs[i][1] # name \/ i = f}
        Keep[i \in 0..Len(sec.attrs)] ==
            IF i = 0 THEN <<>>
            ELSE IF i \in idx
                 THEN Append(Keep[i-1],
                             IF i = f THEN <<name, value>> ELSE sec.attrs[i])
                 ELSE Keep[i-1]
    IN  IF f = 0
        THEN [sec EXCEPT !.attrs = Append(sec.attrs, <<name, value>>)]
        ELSE [sec EXCEPT !.attrs = Keep[Len(sec.attrs)]]

\* Section.add_section(section): appends a child
add_section(sec, child) == [sec EXCEPT !.secs = Append(sec.secs, child)]

\* deleting every child called name, one del_section per child
del_sections(sec, name) ==
    [sec EXCEPT !.secs = SelectSeq(sec.secs, LAMBDA s : s.name # name)]

\* Section.empty
empty(sec) == sec.attrs = <<>> /\ sec.secs = <<>>

\* the children called name replaced, in order, by the sections of new
\* (the facade mutates the section objects a get_sections list holds in place)
PutSections(sec, name, new) ==
    LET Pos[i \in 0..Len(sec.secs)] ==
            IF i = 0 THEN 0
            ELSE Pos[i-1] + (IF sec.secs[i].name = name THEN 1 ELSE 0)
    IN  [sec EXCEPT !.secs =
            [i \in 1..Len(sec.secs) |->
                IF sec.secs[i].name = name THEN new[Pos[i]] ELSE sec.secs[i]]]

\* concatenation of a sequence of sequences
Flatten(ss) ==
    LET F[i \in 0..Len(ss)] == IF i = 0 THEN <<>> ELSE F[i-1] \o ss[i]
    IN  F[Len(ss)]

\* the last value bound to name in an attribute list, None when absent
LastValue(attrs, name) ==
    LET m == SelectSeq(attrs, LAMBDA a : a[1] = name)
    IN  IF m = <<>> THEN None ELSE m[Len(m)][2]

(***************************************************************************)
(* Option dictionaries are functions from a finite set of keys to values.  *)
(***************************************************************************)
\* every option name the model passes around, in Python's sorted() order
SortedKeys == <<"algorithm", "allow_downscale", "auto_tie_breaker", "bad_option",
                "connect_timeout", "force_ip_version", "host",
                "last_man_standing", "last_man_standing_window", "model",
                "port", "sync_timeout", "tie_breaker", "timeout", "two_node",
                "wait_for_all">>

\* sorted(options.items()): the keys of options in sorted order
sorted_keys(options) == SelectSeq(SortedKeys, LAMBDA k : k \in DOMAIN options)

EmptyDict == [k \in {} |-> ""]

\* the dictionary an attribute list builds when each pair is assigned in order
AttrDict(attrs, keys) == [k \in keys |-> LastValue(attrs, k)]

AttrNames(attrs) == {attrs[i][1] : i \in 1..Len(attrs)}

(***************************************************************************)
(* str.isdigit() and int(): a value is read character by character.        *)
(***************************************************************************)
Chars(v) ==
    CASE v = "" -> <<>>
      [] v = "0" -> <<"0">>
      [] v = "1" -> <<"1">>
      [] v = "2" -> <<"2">>
      [] v = "3" -> <<"3">>
      [] v = "4" -> <<"4">>
      [] v = "5" -> <<"5">>
      [] v = "6" -> <<"6">>
      [] v = "7" -> <<"7">>
      [] v = "-1" -> <<"-", "1">>
      [] v = "999" -> <<"9", "9", "9">>
      [] v = "1000" -> <<"1", "0", "0", "0">>
      [] v = "120000" -> <<"1", "2", "0", "0", "0", "0">>
      [] v = "120001" -> <<"1", "2", "0", "0", "0", "1">>
      [] v = "65535" -> <<"6", "5", "5", "3", "5">>
      [] v = "65536" -> <<"6", "5", "5", "3", "6">>
      [] v = "abc" -> <<"a", "b", "c">>
      [] v = "h" -> <<"h">>
      [] v = "x" -> <<"x">>
      [] v = "lms" -> <<"l", "m", "s">>
      [] v = "2nodelms" -> <<"2", "n", "o", "d", "e", "l", "m", "s">>
      [] v = "ffsplit" -> <<"f", "f", "s", "p", "l", "i", "t">>
      [] v = "lowest" -> <<"l", "o", "w", "e", "s", "t">>
      [] v = "highest" -> <<"h", "i", "g", "h", "e", "s", "t">>

DigitOf(c) ==
    CASE c = "0" -> 0 [] c = "1" -> 1 [] c = "2" -> 2 [] c = "3" -> 3
      [] c = "4" -> 4 [] c = "5" -> 5 [] c = "6" -> 6 [] c = "7" -> 7
      [] c = "8" -> 8 [] c = "9" -> 9 [] OTHER -> -1

\* value.isdigit(): non-empty and every character a decimal digit
isdigit(v) ==
    LET cs == Chars(v)
    IN  cs # <<>> /\ \A i \in 1..Len(cs) : DigitOf(cs[i]) >= 0

\* int(value) of a digit string
int(v) ==
    LET cs == Chars(v)
        N[i \in 0..Len(cs)] == IF i = 0 THEN 0 ELSE 10 * N[i-1] + DigitOf(cs[i])
    IN  N[Len(cs)]

(***************************************************************************)
(* Query layer                                                             *)
(***************************************************************************)
QUORUM_OPTIONS ==
    {"auto_tie_breaker", "last_man_standing", "last_man_standing_window",
     "wait_for_all"}

\* ConfigFacade.get_nodes: one entry per nodelist/node section, in order
get_nodes(cfg) ==
    LET nodelists == get_sections(cfg, "nodelist")
        nodes == Flatten([i \in 1..Len(nodelists) |->
                            get_sections(nodelists[i], "node")])
    IN  [i \in 1..Len(nodes) |->
            [ring0 |-> LastValue(nodes[i].attrs, "ring0_addr"),
             ring1 |-> LastValue(nodes[i].attrs, "ring1_addr"),
             label |-> LastValue(nodes[i].attrs, "name"),
             id    |-> LastValue(nodes[i].attrs, "nodeid")]]

\* the attributes of all quorum sections, in document order
QuorumAttrs(cfg) ==
    LET qs == get_sections(cfg, "quorum")
    IN  Flatten([i \in 1..Len(qs) |-> qs[i].attrs])

\* reading the quorum options with the first value seen winning
get_quorum_options_First(cfg) ==
    LET attrs == QuorumAttrs(cfg)
    IN  [k \in AttrNames(attrs) \cap QUORUM_OPTIONS |->
            attrs[FirstAttr(attrs, k)][2]]

\* ConfigFacade.get_quorum_options
get_quorum_options(cfg) ==
    AttrDict(QuorumAttrs(cfg), AttrNames(QuorumAttrs(cfg)) \cap QUORUM_OPTIONS)

\* every quorum/device section, in document order
DeviceSections(cfg) ==
    LET qs == get_sections(cfg, "quorum")
    IN  Flatten([i \in 1..Len(qs) |-> get_sections(qs[i], "device")])

\* a device test that takes any quorum/device section for a device
has_quorum_device_AnyDevice(cfg) == DeviceSections(cfg) # <<>>

\* ConfigFacade.has_quorum_device
has_quorum_device(cfg) ==
    \E i \in 1..Len(DeviceSections(cfg)) :
        get_attributes(DeviceSections(cfg)[i], "model") # <<>>

\* the model update_quorum_device reads: the last model attribute of any device
DeviceModel(cfg) ==
    LET devs == DeviceSections(cfg)
    IN  LastValue(Flatten([i \in 1..Len(devs) |-> devs[i].attrs]), "model")

\* reading the model options from every nested section, whatever its name
get_quorum_device_settings_AllSections(cfg) ==
    LET devs == DeviceSections(cfg)
        dattrs == Flatten([i \in 1..Len(devs) |-> devs[i].attrs])
        model == LastValue(dattrs, "model")
        subs == Flatten([i \in 1..Len(devs) |-> devs[i].secs])
        mine == IF model = None THEN <<>> ELSE subs
        mattrs == Flatten([i \in 1..Len(mine) |-> mine[i].attrs])
    IN  [model |-> model,
         model_options |-> AttrDict(mattrs, AttrNames(mattrs)),
         generic_options |-> AttrDict(dattrs, AttrNames(dattrs) \ {"model"})]

\* ConfigFacade.get_quorum_device_settings
get_quorum_device_settings(cfg) ==
    LET devs == DeviceSections(cfg)
        dattrs == Flatten([i \in 1..Len(devs) |-> devs[i].attrs])
        model == LastValue(dattrs, "model")
        subs == Flatten([i \in 1..Len(devs) |-> devs[i].secs])
        mine == SelectSeq(subs, LAMBDA s : s.name = model)
        mattrs == Flatten([i \in 1..Len(mine) |-> mine[i].attrs])
    IN  [model |-> model,
         model_options |-> AttrDict(mattrs, AttrNames(mattrs)),
         generic_options |-> AttrDict(dattrs, AttrNames(dattrs) \ {"model"})]

(***************************************************************************)
(* Reports and the report processor                                        *)
(***************************************************************************)
ERROR == "ERROR"
WARNING == "WARNING"

ReportItem(code, severity, forceable, name) ==
    [code |-> code, severity |-> severity, forceable |-> forceable, name |-> name]

\* reports.invalid_option(name, allowed, type, severity=ERROR, forceable=None)
invalid_option(name, severity, forceable) ==
    ReportItem("INVALID_OPTION", severity, forceable, name)

\* reports.invalid_option_value(name, value, allowed, severity=ERROR, forceable=None)
invalid_option_value(name, severity, forceable) ==
    ReportItem("INVALID_OPTION_VALUE", severity, forceable, name)

\* reports.required_option_is_missing(name): always an error, never forceable
required_option_is_missing(name) ==
    ReportItem("REQUIRED_OPTION_IS_MISSING", ERROR, None, name)

qdevice_already_defined ==
    ReportItem("QDEVICE_ALREADY_DEFINED", ERROR, None, None)

qdevice_not_defined ==
    ReportItem("QDEVICE_NOT_DEFINED", ERROR, None, None)

\* report_processor.process_list raises LibraryError iff some item is an error
HasErrors(items) == \E i \in 1..Len(items) : items[i].severity = ERROR

(***************************************************************************)
(* Validation layer                                                        *)
(***************************************************************************)
\* a quorum option check that takes any value for last_man_standing_window
QuorumOptionReports_AnyWindow(name, value) ==
    IF name \notin QUORUM_OPTIONS THEN <<invalid_option(name, ERROR, None)>>
    ELSE IF value = "" \/ name = "last_man_standing_window" THEN <<>>
    ELSE IF value \notin {"0", "1"}
         THEN <<invalid_option_value(name, ERROR, None)>> ELSE <<>>

\* one loop iteration of __validate_quorum_options
QuorumOptionReports(name, value) ==
    IF name \notin QUORUM_OPTIONS THEN <<invalid_option(name, ERROR, None)>>
    ELSE IF value = "" THEN <<>>
    ELSE IF name = "last_man_standing_window"
         THEN IF ~isdigit(value)
              THEN <<invalid_option_value(name, ERROR, None)>> ELSE <<>>
         ELSE IF value \notin {"0", "1"}
              THEN <<invalid_option_value(name, ERROR, None)>> ELSE <<>>

\* ConfigFacade.__validate_quorum_options
validate_quorum_options(options) ==
    LET ks == sorted_keys(options)
    IN  Flatten([i \in 1..Len(ks) |-> QuorumOptionReports(ks[i], options[ks[i]])])

\* a model check that ignores force_model
validate_quorum_device_model_NoForce(model, force_model) ==
    IF model \notin {"net"}
    THEN <<invalid_option_value("model", ERROR, "FORCE_QDEVICE_MODEL")>>
    ELSE <<>>

\* ConfigFacade.__validate_quorum_device_model
validate_quorum_device_model(model, force_model) ==
    IF model \notin {"net"}
    THEN <<invalid_option_value("model",
                IF force_model THEN WARNING ELSE ERROR,
                IF force_model THEN None ELSE "FORCE_QDEVICE_MODEL")>>
    ELSE <<>>

NetRequiredOptions == {"host"}
NetOptionalOptions ==
    {"algorithm", "connect_timeout", "force_ip_version", "port", "tie_breaker"}

\* a range test that leaves out the two limits
InRange_Exclusive(value, minimum, maximum) ==
    isdigit(value) /\ minimum < int(value) /\ int(value) < maximum

\* the range tests of connect_timeout and port
InRange(value, minimum, maximum) ==
    isdigit(value) /\ minimum <= int(value) /\ int(value) <= maximum

\* value checks that take any number for a node id
NetValueReports_AnyId(cfg, name, value, severity, forceable) ==
    LET bad == <<invalid_option_value(name, severity, forceable)>>
        node_ids == {get_nodes(cfg)[i].id : i \in 1..Len(get_nodes(cfg))}
    IN  CASE name = "algorithm" ->
                IF value \notin {"2nodelms", "ffsplit", "lms"} THEN bad ELSE <<>>
          [] name = "connect_timeout" ->
                IF ~InRange(value, 1000, 2 * 60 * 1000) THEN bad ELSE <<>>
          [] name = "force_ip_version" ->
                IF value \notin {"0", "4", "6"} THEN bad ELSE <<>>
          [] name = "port" ->
                IF ~InRange(value, 1, 65535) THEN bad ELSE <<>>
          [] name = "tie_breaker" ->
                IF value \notin ({"lowest", "highest"} \cup node_ids) /\ ~isdigit(value)
                THEN bad ELSE <<>>
          [] OTHER -> <<>>

\* the value checks one allowed net option goes through (lines 351-388)
NetValueReports(cfg, name, value, severity, forceable) ==
    LET bad == <<invalid_option_value(name, severity, forceable)>>
        node_ids == {get_nodes(cfg)[i].id : i \in 1..Len(get_nodes(cfg))}
    IN  CASE name = "algorithm" ->
                IF value \notin {"2nodelms", "ffsplit", "lms"} THEN bad ELSE <<>>
          [] name = "connect_timeout" ->
                IF ~InRange(value, 1000, 2 * 60 * 1000) THEN bad ELSE <<>>
          [] name = "force_ip_version" ->
                IF value \notin {"0", "4", "6"} THEN bad ELSE <<>>
          [] name = "port" ->
                IF ~InRange(value, 1, 65535) THEN bad ELSE <<>>
          [] name = "tie_breaker" ->
                IF value \notin ({"lowest", "highest"} \cup node_ids)
                THEN bad ELSE <<>>
          [] OTHER -> <<>>

\* a loop iteration that lets the empty value clear a required option
NetOptionReports_ClearRequired(cfg, name, value, severity, forceable) ==
    IF name \notin (NetRequiredOptions \cup NetOptionalOptions)
    THEN <<invalid_option(name, severity, forceable)>>
    ELSE IF value = "" THEN <<>>
         ELSE NetValueReports(cfg, name, value, severity, forceable)

\* one loop iteration of __validate_quorum_device_model_net_options
NetOptionReports(cfg, name, value, severity, forceable) ==
    IF name \notin (NetRequiredOptions \cup NetOptionalOptions)
    THEN <<invalid_option(name, severity, forceable)>>
    ELSE IF value = ""
         THEN IF name \in NetRequiredOptions
              THEN <<required_option_is_missing(name)>>
                   \o NetValueReports(cfg, name, value, severity, forceable)
              ELSE <<>>
         ELSE NetValueReports(cfg, name, value, severity, forceable)

\* a required-option check that force switches off
MissingRequiredReports_Forceable(model_options, need_required, force) ==
    LET missing == SelectSeq(SortedKeys,
                        LAMBDA k : k \in NetRequiredOptions \ DOMAIN model_options)
    IN  IF need_required /\ ~force
        THEN [i \in 1..Len(missing) |-> required_option_is_missing(missing[i])]
        ELSE <<>>

\* the required-option check of the net options (lines 327-329)
MissingRequiredReports(model_options, need_required, force) ==
    LET missing == SelectSeq(SortedKeys,
                        LAMBDA k : k \in NetRequiredOptions \ DOMAIN model_options)
    IN  IF need_required
        THEN [i \in 1..Len(missing) |-> required_option_is_missing(missing[i])]
        ELSE <<>>

\* ConfigFacade.__validate_quorum_device_model_net_options
validate_quorum_device_model_net_options(cfg, model_options, need_required, force) ==
    LET severity == IF force THEN WARNING ELSE ERROR
        forceable == IF force THEN None ELSE "FORCE_OPTIONS"
        ks == sorted_keys(model_options)
    IN  MissingRequiredReports(model_options, need_required, force)
        \o Flatten([i \in 1..Len(ks) |->
              NetOptionReports(cfg, ks[i], model_options[ks[i]], severity, forceable)])

\* a model option check that reports nothing
validate_quorum_device_model_options_Unchecked(cfg, model, model_options, need_required, force) ==
    <<>>

\* ConfigFacade.__validate_quorum_device_model_options
validate_quorum_device_model_options(cfg, model, model_options, need_required, force) ==
    IF model = "net"
    THEN validate_quorum_device_model_net_options(cfg, model_options, need_required, force)
    ELSE <<>>

\* a loop iteration that treats the key model like any other unknown key
GenericOptionReports_ModelForceable(name, value, severity, forceable) ==
    IF name \notin {"sync_timeout", "timeout"}
    THEN <<invalid_option(name, severity, forceable)>>
    ELSE IF value = "" THEN <<>>
    ELSE IF ~isdigit(value)
         THEN <<invalid_option_value(name, severity, forceable)>>
         ELSE <<>>

\* one loop iteration of __validate_quorum_device_generic_options
GenericOptionReports(name, value, severity, forceable) ==
    IF name \notin {"sync_timeout", "timeout"}
    THEN <<invalid_option(name,
                IF name # "model" THEN severity ELSE ERROR,
                IF name # "model" THEN forceable ELSE None)>>
    ELSE IF value = "" THEN <<>>
    ELSE IF ~isdigit(value)
         THEN <<invalid_option_value(name, severity, forceable)>>
         ELSE <<>>

\* ConfigFacade.__validate_quorum_device_generic_options
validate_quorum_device_generic_options(generic_options, force) ==
    LET severity == IF force THEN WARNING ELSE ERROR
        forceable == IF force THEN None ELSE "FORCE_OPTIONS"
        ks == sorted_keys(generic_options)
    IN  Flatten([i \in 1..Len(ks) |->
            GenericOptionReports(ks[i], generic_options[ks[i]], severity, forceable)])

(***************************************************************************)
(* Mutation layer, invariant maintenance and tree hygiene                  *)
(***************************************************************************)
\* a first loop that leaves the earlier sections as they are
StripOptions_Nothing(sec, options) == sec

\* the first loop of __set_section_options on one section
StripOptions(sec, options) ==
    LET ks == sorted_keys(options)
        S[i \in 0..Len(ks)] ==
            IF i = 0 THEN sec ELSE del_attributes_by_name(S[i-1], ks[i])
    IN  S[Len(ks)]

\* the second loop of __set_section_options on section_list[-1]
ApplyOptions(sec, options) ==
    LET ks == sorted_keys(options)
        S[i \in 0..Len(ks)] ==
            IF i = 0 THEN sec
            ELSE IF options[ks[i]] = ""
                 THEN del_attributes_by_name(S[i-1], ks[i])
                 ELSE set_attribute(S[i-1], ks[i], options[ks[i]])
    IN  S[Len(ks)]

\* setting the options on the last section without purging the earlier ones
set_section_options_LastOnly(section_list, options) ==
    LET n == Len(section_list)
    IN  IF n = 0
        THEN [secs |-> section_list, raised |-> DOMAIN options # {}]
        ELSE [secs |-> [i \in 1..n |->
                            IF i < n THEN section_list[i]
                            ELSE ApplyOptions(section_list[n], options)],
              raised |-> FALSE]

\* ConfigFacade.__set_section_options: the sections after the call, and whether
\* section_list[-1] raised IndexError (an empty list with an option to set)
set_section_options(section_list, options) ==
    LET n == Len(section_list)
    IN  IF n = 0
        THEN [secs |-> section_list, raised |-> DOMAIN options # {}]
        ELSE [secs |-> [i \in 1..n |->
                            IF i < n THEN StripOptions(section_list[i], options)
                            ELSE ApplyOptions(section_list[n], options)],
              raised |-> FALSE]

\* an ensure that adds a section even when one is there
ensure_section_Always(parent, section_name) ==
    add_section(parent, Section(section_name, <<>>, <<>>))

\* ConfigFacade.__ensure_section: the parent with a section of that name
ensure_section(parent, section_name) ==
    IF get_sections(parent, section_name) = <<>>
    THEN add_section(parent, Section(section_name, <<>>, <<>>))
    ELSE parent

\* the children called name of each parent replaced, in order, from one flat list
Distribute(parents, name, flat) ==
    LET Off[j \in 0..Len(parents)] ==
            IF j = 0 THEN 0 ELSE Off[j-1] + Len(get_sections(parents[j], name))
    IN  [j \in 1..Len(parents) |->
            PutSections(parents[j], name, SubSeq(flat, Off[j-1] + 1, Off[j]))]

\* the tree with its quorum/device sections replaced, in order, by devs
PutDeviceSections(cfg, devs) ==
    PutSections(cfg, "quorum", Distribute(get_sections(cfg, "quorum"), "device", devs))

\* the algorithm rewrite with its two directions exchanged
UpdateAlgorithm_Swapped(net, has_two_nodes) ==
    LET algorithm == LastValue(net.attrs, "algorithm")
    IN  IF algorithm = "lms" /\ ~has_two_nodes
        THEN set_attribute(net, "algorithm", "2nodelms")
        ELSE IF algorithm = "2nodelms" /\ has_two_nodes
             THEN set_attribute(net, "algorithm", "lms")
             ELSE net

\* the algorithm rewrite of one net section (lines 448-454)
UpdateAlgorithm(net, has_two_nodes) ==
    LET algorithm == LastValue(net.attrs, "algorithm")
    IN  IF algorithm = "lms" /\ has_two_nodes
        THEN set_attribute(net, "algorithm", "2nodelms")
        ELSE IF algorithm = "2nodelms" /\ ~has_two_nodes
             THEN set_attribute(net, "algorithm", "lms")
             ELSE net

\* has_two_nodes of __update_two_node
HasTwoNodes(cfg) == Len(get_nodes(cfg)) = 2

\* auto_tie_breaker of __update_two_node: the last value seen is not "0"
AutoTieBreaker(cfg) ==
    LET atb == LastValue(QuorumAttrs(cfg), "auto_tie_breaker")
    IN  atb # None /\ atb # "0"

\* ConfigFacade.__update_two_node
update_two_node(cfg) ==
    LET has_qd == has_quorum_device(cfg)
        has_two_nodes == HasTwoNodes(cfg)
        auto_tie_breaker == AutoTieBreaker(cfg)
        ensured == ensure_section(cfg, "quorum")
        qs == get_sections(cfg, "quorum")
        c1 == IF has_two_nodes /\ ~auto_tie_breaker /\ ~has_qd
              THEN PutSections(ensured, "quorum",
                      set_section_options(get_sections(ensured, "quorum"),
                                          "two_node" :> "1").secs)
              ELSE PutSections(cfg, "quorum",
                      [i \in 1..Len(qs) |-> del_attributes_by_name(qs[i], "two_node")])
        devs == DeviceSections(c1)
    IN  PutDeviceSections(c1,
            [i \in 1..Len(devs) |->
                PutSections(devs[i], "net",
                    LET nets == get_sections(devs[i], "net")
                    IN  [k \in 1..Len(nets) |-> UpdateAlgorithm(nets[k], has_two_nodes)])])

\* pruning the empty sections of one level only, without recursing
remove_empty_sections_TopOnly(parent_section) ==
    [parent_section EXCEPT !.secs =
        SelectSeq(parent_section.secs, LAMBDA s : ~empty(s))]

\* ConfigFacade.__remove_empty_sections
RECURSIVE remove_empty_sections(_)
remove_empty_sections(parent_section) ==
    [parent_section EXCEPT !.secs =
        SelectSeq([i \in 1..Len(parent_section.secs) |->
                        remove_empty_sections(parent_section.secs[i])],
                  LAMBDA s : ~empty(s))]

\* what a facade call leaves behind
Outcome(cfg, res, items) == [config |-> cfg, result |-> res, reports |-> items]

\* ConfigFacade.set_quorum_options
set_quorum_options(cfg, options) ==
    LET items == validate_quorum_options(options)
        ensured == ensure_section(cfg, "quorum")
        set == PutSections(ensured, "quorum",
                  set_section_options(get_sections(ensured, "quorum"), options).secs)
    IN  IF HasErrors(items) THEN Outcome(cfg, "LibraryError", items)
        ELSE Outcome(remove_empty_sections(update_two_node(set)), "ok", items)

\* adding the device without deleting the device sections already there
add_quorum_device_KeepDevices(cfg, model, model_options, generic_options, force_model, force_options) ==
    LET items ==
            validate_quorum_device_model(model, force_model)
            \o validate_quorum_device_model_options(cfg, model, model_options,
                                                    TRUE, force_options)
            \o validate_quorum_device_generic_options(generic_options, force_options)
        ensured == ensure_section(cfg, "quorum")
        cleaned == set_section_options(get_sections(ensured, "quorum"),
                      [k \in {"allow_downscale", "auto_tie_breaker",
                              "last_man_standing", "last_man_standing_window",
                              "two_node"} |-> ""]).secs
        nodev == cleaned
        new_model == set_section_options(<<Section(model, <<>>, <<>>)>>,
                                         model_options).secs[1]
        new_device ==
            add_section(
                set_attribute(
                    set_section_options(<<Section("device", <<>>, <<>>)>>,
                                        generic_options).secs[1],
                    "model", model),
                new_model)
        added == PutSections(ensured, "quorum",
                    [i \in 1..Len(nodev) |->
                        IF i = Len(nodev) THEN add_section(nodev[i], new_device)
                        ELSE nodev[i]])
    IN  IF has_quorum_device(cfg)
        THEN Outcome(cfg, "LibraryError", <<qdevice_already_defined>>)
        ELSE IF HasErrors(items) THEN Outcome(cfg, "LibraryError", items)
        ELSE Outcome(remove_empty_sections(update_two_node(added)), "ok", items)

\* an add whose option checks follow force_model instead of force_options
add_quorum_device_OneFlag(cfg, model, model_options, generic_options, force_model, force_options) ==
    LET items ==
            validate_quorum_device_model(model, force_model)
            \o validate_quorum_device_model_options(cfg, model, model_options,
                                                    TRUE, force_model)
            \o validate_quorum_device_generic_options(generic_options, force_model)
        ensured == ensure_section(cfg, "quorum")
        cleaned == set_section_options(get_sections(ensured, "quorum"),
                      [k \in {"allow_downscale", "auto_tie_breaker",
                              "last_man_standing", "last_man_standing_window",
                              "two_node"} |-> ""]).secs
        nodev == [i \in 1..Len(cleaned) |-> del_sections(cleaned[i], "device")]
        new_model == set_section_options(<<Section(model, <<>>, <<>>)>>,
                                         model_options).secs[1]
        new_device ==
            add_section(
                set_attribute(
                    set_section_options(<<Section("device", <<>>, <<>>)>>,
                                        generic_options).secs[1],
                    "model", model),
                new_model)
        added == PutSections(ensured, "quorum",
                    [i \in 1..Len(nodev) |->
                        IF i = Len(nodev) THEN add_section(nodev[i], new_device)
                        ELSE nodev[i]])
    IN  IF has_quorum_device(cfg)
        THEN Outcome(cfg, "LibraryError", <<qdevice_already_defined>>)
        ELSE IF HasErrors(items) THEN Outcome(cfg, "LibraryError", items)
        ELSE Outcome(remove_empty_sections(update_two_node(added)), "ok", items)

\* ConfigFacade.add_quorum_device
add_quorum_device(cfg, model, model_options, generic_options, force_model, force_options) ==
    LET items ==
            validate_quorum_device_model(model, force_model)
            \o validate_quorum_device_model_options(cfg, model, model_options,
                                                    TRUE, force_options)
            \o validate_quorum_device_generic_options(generic_options, force_options)
        ensured == ensure_section(cfg, "quorum")
        cleaned == set_section_options(get_sections(ensured, "quorum"),
                      [k \in {"allow_downscale", "auto_tie_breaker",
                              "last_man_standing", "last_man_standing_window",
                              "two_node"} |-> ""]).secs
        nodev == [i \in 1..Len(cleaned) |-> del_sections(cleaned[i], "device")]
        new_model == set_section_options(<<Section(model, <<>>, <<>>)>>,
                                         model_options).secs[1]
        new_device ==
            add_section(
                set_attribute(
                    set_section_options(<<Section("device", <<>>, <<>>)>>,
                                        generic_options).secs[1],
                    "model", model),
                new_model)
        added == PutSections(ensured, "quorum",
                    [i \in 1..Len(nodev) |->
                        IF i = Len(nodev) THEN add_section(nodev[i], new_device)
                        ELSE nodev[i]])
    IN  IF has_quorum_device(cfg)
        THEN Outcome(cfg, "LibraryError", <<qdevice_already_defined>>)
        ELSE IF HasErrors(items) THEN Outcome(cfg, "LibraryError", items)
        ELSE Outcome(remove_empty_sections(update_two_node(added)), "ok", items)

\* an update that never writes the generic options
update_quorum_device_NoGeneric(cfg, model_options, generic_options, force_options) ==
    LET model == DeviceModel(cfg)
        items ==
            validate_quorum_device_model_options(cfg, model, model_options,
                                                 FALSE, force_options)
            \o validate_quorum_device_generic_options(generic_options, force_options)
        device_sections == DeviceSections(cfg)
        model_sections ==
            Flatten([i \in 1..Len(device_sections) |->
                        get_sections(device_sections[i], model)])
        devs == [secs |-> device_sections, raised |-> FALSE]
        with_generic == PutDeviceSections(cfg, devs.secs)
        models == set_section_options(model_sections, model_options)
        with_model == PutDeviceSections(cfg,
                          Distribute(devs.secs, model, models.secs))
    IN  IF ~has_quorum_device(cfg)
        THEN Outcome(cfg, "LibraryError", <<qdevice_not_defined>>)
        ELSE IF HasErrors(items) THEN Outcome(cfg, "LibraryError", items)
        ELSE IF devs.raised THEN Outcome(cfg, "IndexError", items)
        ELSE IF models.raised THEN Outcome(with_generic, "IndexError", items)
        ELSE Outcome(remove_empty_sections(update_two_node(with_model)), "ok", items)

\* ConfigFacade.update_quorum_device
update_quorum_device(cfg, model_options, generic_options, force_options) ==
    LET model == DeviceModel(cfg)
        items ==
            validate_quorum_device_model_options(cfg, model, model_options,
                                                 FALSE, force_options)
            \o validate_quorum_device_generic_options(generic_options, force_options)
        device_sections == DeviceSections(cfg)
        model_sections ==
            Flatten([i \in 1..Len(device_sections) |->
                        get_sections(device_sections[i], model)])
        devs == set_section_options(device_sections, generic_options)
        with_generic == PutDeviceSections(cfg, devs.secs)
        models == set_section_options(model_sections, model_options)
        with_model == PutDeviceSections(cfg,
                          Distribute(devs.secs, model, models.secs))
    IN  IF ~has_quorum_device(cfg)
        THEN Outcome(cfg, "LibraryError", <<qdevice_not_defined>>)
        ELSE IF HasErrors(items) THEN Outcome(cfg, "LibraryError", items)
        ELSE IF devs.raised THEN Outcome(cfg, "IndexError", items)
        ELSE IF models.raised THEN Outcome(with_generic, "IndexError", items)
        ELSE Outcome(remove_empty_sections(update_two_node(with_model)), "ok", items)

\* removing only the device sections that carry a model attribute
remove_quorum_device_ModelOnly(cfg) ==
    LET qs == get_sections(cfg, "quorum")
        removed == PutSections(cfg, "quorum",
                      [i \in 1..Len(qs) |->
                          [qs[i] EXCEPT !.secs = SelectSeq(qs[i].secs,
                              LAMBDA s : s.name # "device"
                                         \/ get_attributes(s, "model") = <<>>)]])
    IN  IF ~has_quorum_device(cfg)
        THEN Outcome(cfg, "LibraryError", <<qdevice_not_defined>>)
        ELSE Outcome(remove_empty_sections(update_two_node(removed)), "ok", <<>>)

\* removing the device sections without asking whether a device is defined
remove_quorum_device_Unchecked(cfg) ==
    LET qs == get_sections(cfg, "quorum")
        removed == PutSections(cfg, "quorum",
                      [i \in 1..Len(qs) |-> del_sections(qs[i], "device")])
    IN  Outcome(remove_empty_sections(update_two_node(removed)), "ok", <<>>)

\* ConfigFacade.remove_quorum_device
remove_quorum_device(cfg) ==
    LET qs == get_sections(cfg, "quorum")
        removed == PutSections(cfg, "quorum",
                      [i \in 1..Len(qs) |-> del_sections(qs[i], "device")])
    IN  IF ~has_quorum_device(cfg)
        THEN Outcome(cfg, "LibraryError", <<qdevice_not_defined>>)
        ELSE Outcome(remove_empty_sections(update_two_node(removed)), "ok", <<>>)

(***************************************************************************)
(* The trees a facade is built around (what config_parser.parse_string     *)
(* hands to ConfigFacade.__init__) and the arguments of the calls.         *)
(***************************************************************************)
MaxCalls == 2

NodeSection(i) ==
    Section("node",
            << <<"ring0_addr", <<"a", "b", "c", "d", "e">>[i]>>,
               <<"nodeid", <<"1", "2", "3", "4", "5">>[i]>> >>,
            <<>>)

\* a nodelist of n nodes, followed by husks empty node sections
NodeList(n, husks) ==
    Section("nodelist", <<>>,
            [i \in 1..(n + husks) |->
                IF i <= n THEN NodeSection(i) ELSE Section("node", <<>>, <<>>)])

\* two nodes, two nodes and an empty node section, three nodes
NodeLists == {NodeList(2, 0), NodeList(2, 1), NodeList(3, 0)}

QuorumLists ==
    { <<>>,
      <<Section("quorum", << <<"provider", "corosync_votequorum">> >>, <<>>)>>,
      <<Section("quorum", << <<"provider", "corosync_votequorum">>,
                             <<"two_node", "1">> >>, <<>>)>>,
      <<Section("quorum", << <<"auto_tie_breaker", "1">>,
                             <<"last_man_standing", "1">> >>, <<>>)>>,
      <<Section("quorum", << <<"provider", "corosync_votequorum">>,
                             <<"wait_for_all", "0">>, <<"two_node", "1">>,
                             <<"allow_downscale", "1">>,
                             <<"wait_for_all", "1">> >>, <<>>),
        Section("quorum", << <<"wait_for_all", "1">>,
                             <<"auto_tie_breaker", "0">> >>, <<>>)>> }

NetDevice(algorithm) ==
    Section("device", << <<"timeout", "3">>, <<"model", "net">> >>,
            <<Section("net", << <<"host", "h">>, <<"algorithm", algorithm>> >>, <<>>)>>)

\* the device sections a parsed tree may hold under its last quorum section
DeviceLists ==
    { <<>>,
      <<NetDevice("lms")>>,
      <<NetDevice("2nodelms")>>,
      <<Section("device", << <<"model", "net">> >>, <<>>)>>,
      <<Section("device", << <<"timeout", "3">> >>, <<>>)>>,
      <<Section("device", << <<"timeout", "7">> >>,
                <<Section("net", << <<"port", "7">> >>, <<>>)>>),
        Section("device", << <<"timeout", "3">>, <<"model", "net">> >>,
                <<Section("net", << <<"host", "h">>,
                                    <<"algorithm", "ffsplit">> >>, <<>>),
                  Section("heuristics", << <<"host", "x">> >>, <<>>)>>)>> }

\* a parsed corosync.conf: totem, nodelist, quorum sections, a hollow logging
Tree(nodelist, quorums, devices) ==
    LET qs == IF quorums = <<>> /\ devices # <<>>
              THEN <<Section("quorum", <<>>, <<>>)>> ELSE quorums
        withdev == [i \in 1..Len(qs) |->
                      IF i = Len(qs)
                      THEN [qs[i] EXCEPT !.secs = devices] ELSE qs[i]]
    IN  Section("", <<>>,
            <<Section("totem", << <<"version", "2">> >>,
                      <<Section("interface", <<>>, <<>>)>>),
              nodelist>>
            \o withdev
            \o <<Section("logging", <<>>,
                          <<Section("logger_subsys", <<>>, <<>>)>>)>>)

\* a document whose only content is one quorum section holding one device
DeviceOnlyTree ==
    Section("", <<>>, <<Section("quorum", <<>>, <<NetDevice("ffsplit")>>)>>)

\* a document with a device section that is no child of a quorum section
StrayDeviceTree ==
    Section("", <<>>,
            <<NodeList(2, 0),
              Section("quorum", << <<"provider", "corosync_votequorum">> >>, <<>>),
              NetDevice("lms")>>)

InitTrees ==
    {Tree(n, q, d) : n \in NodeLists, q \in QuorumLists, d \in DeviceLists}
    \cup {DeviceOnlyTree, StrayDeviceTree}

QuorumOptionInputs ==
    { EmptyDict,
      "wait_for_all" :> "1",
      "wait_for_all" :> "",
      "auto_tie_breaker" :> "1",
      "auto_tie_breaker" :> "0",
      ("auto_tie_breaker" :> "") @@ ("last_man_standing_window" :> "0"),
      "last_man_standing_window" :> "-1",
      "wait_for_all" :> "2",
      "two_node" :> "1" }

Models == {"net", "bogus"}

ModelOptionInputs ==
    { EmptyDict,
      "host" :> "h",
      "host" :> "",
      ("host" :> "h") @@ ("algorithm" :> "lms"),
      ("host" :> "h") @@ ("port" :> "65536"),
      ("host" :> "h") @@ ("bad_option" :> "x") @@ ("connect_timeout" :> "") }

GenericOptionInputs ==
    { EmptyDict,
      "timeout" :> "5",
      "timeout" :> "abc",
      ("sync_timeout" :> "") @@ ("timeout" :> "5"),
      "bad_option" :> "x",
      "model" :> "" }

UpdateModelOptionInputs ==
    { EmptyDict,
      "port" :> "7",
      "host" :> "",
      "algorithm" :> "lms",
      "algorithm" :> "x",
      "port" :> "65536" }

NoCall ==
    [op |-> "none", options |-> EmptyDict, model |-> None,
     model_options |-> EmptyDict, generic_options |-> EmptyDict,
     force_model |-> FALSE, force_options |-> FALSE]

\* the cluster property command is not running
PropertyIdle ==
    /\ pc = "idle"
    /\ report_processor = [report_list |-> <<>>, has_errors |-> FALSE]
    /\ cluster_property_facade_list = <<>>
    /\ attempted = <<>>
    /\ property_dict = <<>>

Init ==
    /\ config \in InitTrees
    /\ prev = config
    /\ last = NoCall
    /\ result = "none"
    /\ reports = <<>>
    /\ calls = 0
    /\ PropertyIdle

\* the state a call leaves: its outcome, and the record of the call
Call(made, outcome) ==
    /\ result = "none"
    /\ calls < MaxCalls
    /\ calls' = calls + 1
    /\ prev' = config
    /\ last' = made
    /\ config' = outcome.config
    /\ result' = outcome.result
    /\ reports' = outcome.reports
    /\ UNCHANGED property_vars

SetQuorumOptions ==
    \E options \in QuorumOptionInputs :
        Call([NoCall EXCEPT !.op = "set_quorum_options", !.options = options],
             set_quorum_options(config, options))

\* The arguments of add_quorum_device.  A call the device precondition rejects
\* never reads its arguments; the options of a model other than net are not
\* validated, only written when the model is forced; force_model is read by
\* the model check alone.  Such calls are made with a few of the argument
\* combinations only.
AddFlags(cfg) ==
    IF has_quorum_device(cfg)
    THEN {<<FALSE, FALSE>>, <<TRUE, TRUE>>}
    ELSE BOOLEAN \X BOOLEAN

AddModelOptions(cfg, model, force_model) ==
    IF has_quorum_device(cfg) \/ (model # "net" /\ ~force_model)
    THEN {EmptyDict, "host" :> "h"}
    ELSE IF model # "net"
         THEN {EmptyDict, "host" :> "h", ("host" :> "h") @@ ("algorithm" :> "lms")}
    ELSE IF force_model
         THEN {EmptyDict, "host" :> "h", ("host" :> "h") @@ ("port" :> "65536")}
         ELSE ModelOptionInputs

AddGenericOptions(cfg, model, force_model) ==
    IF has_quorum_device(cfg) THEN {EmptyDict}
    ELSE IF model # "net" \/ force_model
         THEN {EmptyDict, "timeout" :> "5", "timeout" :> "abc"}
         ELSE GenericOptionInputs

\* The arguments of update_quorum_device, likewise.
UpdateFlags(cfg) ==
    IF has_quorum_device(cfg) THEN BOOLEAN ELSE {FALSE}

UpdateModelOptions(cfg) ==
    IF has_quorum_device(cfg)
    THEN UpdateModelOptionInputs ELSE {EmptyDict, "port" :> "7"}

UpdateGenericOptions(cfg) ==
    IF has_quorum_device(cfg)
    THEN GenericOptionInputs ELSE {EmptyDict}

AddQuorumDevice ==
    \E model \in Models, flags \in AddFlags(config) :
     \E model_options \in AddModelOptions(config, model, flags[1]),
        generic_options \in AddGenericOptions(config, model, flags[1]) :
        /\ model_options = ("host" :> "h") \/ generic_options = EmptyDict
        /\ Call([NoCall EXCEPT !.op = "add_quorum_device", !.model = model,
                               !.model_options = model_options,
                               !.generic_options = generic_options,
                               !.force_model = flags[1],
                               !.force_options = flags[2]],
                add_quorum_device(config, model, model_options, generic_options,
                                  flags[1], flags[2]))

UpdateQuorumDevice ==
    \E model_options \in UpdateModelOptions(config),
       generic_options \in UpdateGenericOptions(config),
       force_options \in UpdateFlags(config) :
        /\ \/ model_options = EmptyDict
           \/ generic_options = EmptyDict
           \/ model_options = ("port" :> "7") /\ generic_options = ("timeout" :> "5")
        /\ Call([NoCall EXCEPT !.op = "update_quorum_device",
                               !.model_options = model_options,
                               !.generic_options = generic_options,
                               !.force_options = force_options],
                update_quorum_device(config, model_options, generic_options,
                                     force_options))

RemoveQuorumDevice ==
    Call([NoCall EXCEPT !.op = "remove_quorum_device"],
         remove_quorum_device(config))

\* the caller has seen how the call ended and goes on with the tree it left
Continue ==
    /\ result # "none"
    /\ prev' = config
    /\ last' = NoCall
    /\ result' = "none"
    /\ reports' = <<>>
    /\ UNCHANGED <<config, calls>>
    /\ UNCHANGED property_vars

Next ==
    \/ SetQuorumOptions
    \/ AddQuorumDevice
    \/ UpdateQuorumDevice
    \/ RemoveQuorumDevice
    \/ Continue

Spec == Init /\ [][Next]_vars

\* the facade is built around a tree without a quorum device
InitNoQuorumDevice == Init /\ ~has_quorum_device(config)

SpecNoQuorumDevice == InitNoQuorumDevice /\ [][Next]_vars

\* the facade is built around a tree without any quorum/device section
InitNoDeviceSection == Init /\ DeviceSections(config) = <<>>

SpecNoDeviceSection == InitNoDeviceSection /\ [][Next]_vars

(***************************************************************************)
(* The net option validator on its own: one call of                        *)
(* __validate_quorum_device_model_net_options per step, its findings left  *)
(* in reports.                                                             *)
(***************************************************************************)
NetOptionNames ==
    {"host", "algorithm", "connect_timeout", "force_ip_version", "port",
     "tie_breaker", "bad_option"}

NetOptionValues ==
    {"", "0", "1", "3", "4", "5", "6", "-1", "999", "1000", "120000", "120001",
     "65535", "65536", "abc", "x", "lms", "2nodelms", "ffsplit", "lowest",
     "highest"}

\* model_options of one key, or of one key next to a port
NetOptionInputs ==
    {n :> v : n \in NetOptionNames, v \in NetOptionValues}
    \cup {(n :> v) @@ ("port" :> p) :
            n \in NetOptionNames \ {"port"}, v \in {"", "5", "999", "lms"},
            p \in {"0", "1"}}

\* the trees the validator reads its node ids from
NetTrees ==
    {Tree(NodeList(2, 0), <<>>, <<>>),
     Tree(NodeList(2, 1), <<>>, <<>>),
     Tree(NodeList(3, 0), <<>>, <<NetDevice("ffsplit")>>)}

InitNet ==
    /\ config \in NetTrees
    /\ prev = config
    /\ last = NoCall
    /\ result = "none"
    /\ reports = <<>>
    /\ calls = 0
    /\ PropertyIdle

ValidateNetOptions ==
    \E model_options \in NetOptionInputs, need_required \in BOOLEAN,
       force \in BOOLEAN :
        /\ result = "none"
        /\ calls < MaxCalls
        /\ calls' = calls + 1
        /\ last' = [NoCall EXCEPT !.op = IF need_required
                                         THEN "validate_net_options_required"
                                         ELSE "validate_net_options",
                                  !.model_options = model_options,
                                  !.force_options = force]
        /\ reports' = validate_quorum_device_model_net_options(
                            config, model_options, need_required, force)
        /\ result' = "validated"
        /\ UNCHANGED <<config, prev>>
        /\ UNCHANGED property_vars

\* a facade is created around the configuration parsed anew, after its
\* node list changed
ReloadConfig ==
    /\ result = "none"
    /\ config' \in NetTrees
    /\ get_nodes(config') # get_nodes(config)
    /\ prev' = config
    /\ UNCHANGED <<last, result, reports, calls>>
    /\ UNCHANGED property_vars

NextNet ==
    \/ ValidateNetOptions
    \/ ReloadConfig
    \/ Continue

SpecNet == InitNet /\ [][NextNet]_vars

(***************************************************************************)
(* pcs.lib.commands.cluster_property: get_cluster_properties_definition    *)
(* and _get_property_facade_list, one step per loop iteration.             *)
(***************************************************************************)
\* pacemaker_daemons of _get_property_facade_list
pacemaker_daemons ==
    <<"pacemaker-based", "pacemaker-controld", "pacemaker-schedulerd">>

\* how factory.facade_from_pacemaker_daemon_name(daemon) can end: with a
\* facade, or with one of the two exceptions the loop catches
FactoryOutcomes ==
    {"facade", "UnableToGetAgentMetadata", "UnsupportedOcfVersion"}

\* the facade the factory returns for a daemon
ResourceAgentFacade(daemon) == [agent |-> daemon]

\* resource_agent_error_to_report_item(e, severity)
resource_agent_error_to_report_item(e, daemon, severity) ==
    [severity |-> severity, code |-> e, agent |-> daemon]

\* ReportProcessor.report_list: hands the items on and remembers an error
report_list(processor, items) ==
    [report_list |-> processor.report_list \o items,
     has_errors |-> processor.has_errors
                    \/ \E i \in 1..Len(items) : items[i].severity = "ERROR"]

\* a loop body whose except clause swallows the exception
loop_body_Swallow(facade_list, processor, daemon, outcome) ==
    IF outcome = "facade"
    THEN [facade_list |-> Append(facade_list, ResourceAgentFacade(daemon)),
          processor |-> processor]
    ELSE [facade_list |-> facade_list, processor |-> processor]

\* one iteration of "for daemon in pacemaker_daemons": the try/except
loop_body(facade_list, processor, daemon, outcome) ==
    IF outcome = "facade"
    THEN [facade_list |-> Append(facade_list, ResourceAgentFacade(daemon)),
          processor |-> processor]
    ELSE [facade_list |-> facade_list,
          processor |-> report_list(processor,
                            <<resource_agent_error_to_report_item(
                                    outcome, daemon, "ERROR")>>)]

\* what env.report_processor has seen before the command runs
PriorReports ==
    {<<>>,
     <<[severity |-> "WARNING", code |-> "prior", agent |-> None]>>,
     <<[severity |-> "ERROR", code |-> "prior", agent |-> None]>>}

InitProperty ==
    /\ config = Section("", <<>>, <<>>)
    /\ prev = config
    /\ last = NoCall
    /\ result = "none"
    /\ reports = <<>>
    /\ calls = 0
    /\ pc = "idle"
    /\ \E prior \in PriorReports :
            report_processor =
                report_list([report_list |-> <<>>, has_errors |-> FALSE], prior)
    /\ cluster_property_facade_list = <<>>
    /\ attempted = <<>>
    /\ property_dict = <<>>

\* get_cluster_properties_definition builds the factory and calls
\* _get_property_facade_list, which starts with an empty list
GetClusterPropertiesDefinition ==
    /\ pc = "idle"
    /\ pc' = "for"
    /\ cluster_property_facade_list' = <<>>
    /\ attempted' = <<>>
    /\ UNCHANGED <<report_processor, property_dict>>
    /\ UNCHANGED facade_vars

\* the next iteration of the loop over pacemaker_daemons
FacadeFromPacemakerDaemonName ==
    /\ pc = "for"
    /\ Len(attempted) < Len(pacemaker_daemons)
    /\ LET daemon == pacemaker_daemons[Len(attempted) + 1]
       IN  \E outcome \in FactoryOutcomes :
            LET after == loop_body(cluster_property_facade_list,
                                   report_processor, daemon, outcome)
            IN  /\ attempted' = Append(attempted, daemon)
                /\ cluster_property_facade_list' = after.facade_list
                /\ report_processor' = after.processor
    /\ pc' = IF Len(attempted') = Len(pacemaker_daemons)
             THEN "has_errors" ELSE "for"
    /\ UNCHANGED property_dict
    /\ UNCHANGED facade_vars

\* "if report_processor.has_errors: raise LibraryError()", else return
RaiseOrReturn ==
    /\ pc = "has_errors"
    /\ pc' = IF report_processor.has_errors THEN "LibraryError" ELSE "return"
    /\ UNCHANGED <<report_processor, cluster_property_facade_list, attempted,
                   property_dict>>
    /\ UNCHANGED facade_vars

\* the caller merges the metadata of every returned facade, in order
UpdatePropertyDict ==
    /\ pc = "return"
    /\ pc' = "done"
    /\ property_dict' =
            [i \in 1..Len(cluster_property_facade_list) |->
                cluster_property_facade_list[i].agent]
    /\ UNCHANGED <<report_processor, cluster_property_facade_list, attempted>>
    /\ UNCHANGED facade_vars

NextProperty ==
    \/ GetClusterPropertiesDefinition
    \/ FacadeFromPacemakerDaemonName
    \/ RaiseOrReturn
    \/ UpdatePropertyDict

SpecProperty == InitProperty /\ [][NextProperty]_vars

(***************************************************************************)
(* Properties                                                              *)
(***************************************************************************)
Quorums(cfg) == get_sections(cfg, "quorum")

HasReport(code, name, severity) ==
    \E i \in 1..Len(reports) :
        /\ reports[i].code = code
        /\ reports[i].name = name
        /\ reports[i].severity = severity

\* C1: no exception escapes mid-mutation: a call whose validation yields no
\* error-severity finding runs to completion without raising, and a call that
\* raised left the tree exactly as it was.
C1_NoExceptionEscapes ==
    result # "none" =>
        /\ (~HasErrors(reports) => result = "ok")
        /\ (result # "ok" => config = prev)

\* C2: set_quorum_options, add_quorum_device and update_quorum_device raise if
\* and only if the finding list holds an error-severity finding; when they
\* raise the tree is the tree before the call.
C2_ValidationGate ==
    (result # "none" /\ last.op # "remove_quorum_device") =>
        /\ (result # "ok" <=> HasErrors(reports))
        /\ (result # "ok" => config = prev)

\* the last quorum section holds name exactly once, with that value
LastQuorumHas(cfg, name, value) ==
    /\ Quorums(cfg) # <<>>
    /\ get_attributes(Quorums(cfg)[Len(Quorums(cfg))], name) = << <<name, value>> >>

\* no quorum section holds an attribute called name
NoQuorumHas(cfg, name) == name \notin AttrNames(QuorumAttrs(cfg))

Algorithms(cfg) ==
    LET devs == DeviceSections(cfg)
        nets == Flatten([i \in 1..Len(devs) |-> get_sections(devs[i], "net")])
        with == SelectSeq(nets, LAMBDA n : get_attributes(n, "algorithm") # <<>>)
    IN  [i \in 1..Len(with) |-> LastValue(with[i].attrs, "algorithm")]

\* the last call succeeded, kept the device sections and submitted no algorithm
KeptAlgorithm ==
    /\ result = "ok"
    /\ \/ last.op = "set_quorum_options"
       \/ /\ last.op = "update_quorum_device"
          /\ "algorithm" \notin DOMAIN last.model_options

\* C4 as stated: algorithm "lms" stays "lms" across mutations on a 2-node
\* cluster, and with 3 nodes a mutation flips it to "2nodelms".
C4_Original ==
    KeptAlgorithm =>
        /\ Len(Algorithms(config)) = Len(Algorithms(prev))
        /\ \A i \in 1..Len(Algorithms(prev)) :
              Algorithms(prev)[i] = "lms" =>
                  /\ Len(get_nodes(prev)) = 2 => Algorithms(config)[i] = "lms"
                  /\ Len(get_nodes(prev)) = 3 => Algorithms(config)[i] = "2nodelms"

\* C4 (amended): a successful set_quorum_options, or update_quorum_device that
\* submits no algorithm, rewrites "lms" to "2nodelms" when the document has
\* exactly 2 node sections, and with any other node count leaves "lms" as it
\* is and rewrites "2nodelms" to "lms"; every other value stays.
C4_AlgorithmFlip ==
    KeptAlgorithm =>
        /\ Len(Algorithms(config)) = Len(Algorithms(prev))
        /\ \A i \in 1..Len(Algorithms(prev)) :
              Algorithms(config)[i] =
                  IF Algorithms(prev)[i] \in {"lms", "2nodelms"}
                  THEN IF Len(get_nodes(prev)) = 2 THEN "2nodelms" ELSE "lms"
                  ELSE Algorithms(prev)[i]

C4_Witness ==
    /\ KeptAlgorithm
    /\ Len(get_nodes(prev)) = 2
    /\ Algorithms(prev) = <<"lms">>
    /\ Algorithms(config) = <<"2nodelms">>

\* C5: after a successful set_quorum_options(options) every submitted key is
\* absent from every quorum section but the last; the last one holds each key
\* submitted with a non-empty value exactly once, with that value, and holds no
\* key submitted with an empty value.
C5_MergeCorrectness ==
    (result = "ok" /\ last.op = "set_quorum_options") =>
        LET qs == Quorums(config)
        IN  \A k \in DOMAIN last.options :
                /\ \A i \in 1..(Len(qs) - 1) : get_attributes(qs[i], k) = <<>>
                /\ IF last.options[k] # ""
                   THEN LastQuorumHas(config, k, last.options[k])
                   ELSE NoQuorumHas(config, k)

C5_Witness ==
    /\ result = "ok"
    /\ last.op = "set_quorum_options"
    /\ last.options = ("wait_for_all" :> "1")
    /\ Len(Quorums(prev)) = 2
    /\ get_attributes(Quorums(prev)[1], "wait_for_all") # <<>>
    /\ get_attributes(Quorums(prev)[2], "wait_for_all") # <<>>
    /\ Len(Quorums(config)) = 2
    /\ get_attributes(Quorums(config)[1], "wait_for_all") = <<>>
    /\ LastQuorumHas(config, "wait_for_all", "1")

\* C6: applying the same set_quorum_options call to the tree a successful
\* set_quorum_options left yields that same tree.
C6_Idempotence ==
    (result = "ok" /\ last.op = "set_quorum_options") =>
        /\ set_quorum_options(config, last.options).result = "ok"
        /\ set_quorum_options(config, last.options).config = config

IsAdd == last.op = "add_quorum_device"

\* C7 as stated: on a tree without a device, add_quorum_device with a model
\* other than "net" aborts with an error finding for model and leaves the tree
\* alone when force_model is false; with force_model it reports the finding as
\* a warning, succeeds, and get_quorum_device_settings() returns that model.
C7_Original ==
    (IsAdd /\ ~has_quorum_device(prev) /\ last.model # "net") =>
        IF ~last.force_model
        THEN /\ result = "LibraryError"
             /\ HasReport("INVALID_OPTION_VALUE", "model", ERROR)
             /\ config = prev
        ELSE /\ HasReport("INVALID_OPTION_VALUE", "model", WARNING)
             /\ result = "ok"
             /\ get_quorum_device_settings(config).model = last.model

\* C7 (amended): as C7, except that the call with force_model succeeds exactly
\* when no other finding (of generic_options) is an error, and leaves the tree
\* alone otherwise.
C7_ForceDowngrade ==
    (IsAdd /\ ~has_quorum_device(prev) /\ last.model # "net") =>
        IF ~last.force_model
        THEN /\ result = "LibraryError"
             /\ HasReport("INVALID_OPTION_VALUE", "model", ERROR)
             /\ config = prev
        ELSE /\ HasReport("INVALID_OPTION_VALUE", "model", WARNING)
             /\ ~HasReport("INVALID_OPTION_VALUE", "model", ERROR)
             /\ result = "ok" <=> ~HasErrors(reports)
             /\ result = "ok" =>
                    get_quorum_device_settings(config).model = last.model
             /\ result # "ok" => config = prev

C7_Witness ==
    /\ IsAdd
    /\ ~has_quorum_device(prev)
    /\ last.model = "bogus"
    /\ last.force_model
    /\ HasReport("INVALID_OPTION_VALUE", "model", WARNING)
    /\ result = "ok"
    /\ get_quorum_device_settings(config).model = "bogus"

\* the submitted model options lack host, or give it the empty value
LacksHost ==
    \/ "host" \notin DOMAIN last.model_options
    \/ last.model_options["host"] = ""

\* C8 as stated: add_quorum_device with model "net" and no host always aborts
\* with an error-severity missing-required-option finding, tree unchanged.
C8_Original ==
    (IsAdd /\ last.model = "net" /\ LacksHost) =>
        /\ result = "LibraryError"
        /\ HasReport("REQUIRED_OPTION_IS_MISSING", "host", ERROR)
        /\ config = prev

\* C8 (amended): add_quorum_device with model "net" and no host always aborts
\* and leaves the tree unchanged, whatever the force flags; on a tree without
\* a quorum device the abort carries an error-severity missing-required-option
\* finding for host.
C8_RequiredGate ==
    (IsAdd /\ last.model = "net" /\ LacksHost) =>
        /\ result = "LibraryError"
        /\ config = prev
        /\ ~has_quorum_device(prev) =>
                HasReport("REQUIRED_OPTION_IS_MISSING", "host", ERROR)

C8_Witness ==
    /\ IsAdd
    /\ last.model = "net"
    /\ last.model_options = EmptyDict
    /\ last.force_model
    /\ last.force_options
    /\ ~has_quorum_device(prev)
    /\ result = "LibraryError"
    /\ HasReport("REQUIRED_OPTION_IS_MISSING", "host", ERROR)
    /\ config = prev

\* some quorum/device section carries a model attribute
DeviceDefined(cfg) ==
    \E i \in 1..Len(Quorums(cfg)) :
        \E j \in 1..Len(Quorums(cfg)[i].secs) :
            /\ Quorums(cfg)[i].secs[j].name = "device"
            /\ "model" \in AttrNames(Quorums(cfg)[i].secs[j].attrs)

RECURSIVE HasEmptySection(_)
HasEmptySection(sec) ==
    \E i \in 1..Len(sec.secs) :
        empty(sec.secs[i]) \/ HasEmptySection(sec.secs[i])

\* the document's only content is one quorum section holding one device
OnlyOneDevice(cfg) ==
    /\ Len(cfg.secs) = 1
    /\ cfg.secs[1].name = "quorum"
    /\ cfg.secs[1].attrs = <<>>
    /\ Len(cfg.secs[1].secs) = 1
    /\ cfg.secs[1].secs[1].name = "device"

\* C10: after every successful mutation no section other than the root is
\* empty; remove_quorum_device on a document whose only content is one quorum
\* section holding one device leaves no quorum section.
C10_Hygiene ==
    result = "ok" =>
        /\ ~HasEmptySection(config)
        /\ (last.op = "remove_quorum_device" /\ OnlyOneDevice(prev)) =>
                Quorums(config) = <<>>

C10_Witness ==
    /\ result = "ok"
    /\ last.op = "remove_quorum_device"
    /\ OnlyOneDevice(prev)
    /\ config.secs = <<>>

\* numerals are read up to one beyond the largest limit a range check tests
MaxLiteral == 2 * 60 * 1000 + 1

\* the number a string is the decimal numeral of, -1 when it is none
LiteralValue ==
    [v \in {"", "0", "1", "2", "3", "4", "5", "6", "7", "-1", "999", "1000",
            "120000", "120001", "65535", "65536", "abc", "h", "x", "lms",
            "2nodelms", "ffsplit", "lowest", "highest"} |->
        IF \E n \in 0..MaxLiteral : ToString(n) = v
        THEN CHOOSE n \in 0..MaxLiteral : ToString(n) = v
        ELSE -1]

\* a submitted quorum option the specification accepts
QuorumOptionAccepted(name, value) ==
    /\ name \in {"auto_tie_breaker", "last_man_standing",
                 "last_man_standing_window", "wait_for_all"}
    /\ \/ value = ""
       \/ name = "last_man_standing_window" /\ LiteralValue[value] >= 0
       \/ name # "last_man_standing_window" /\ value \in {"0", "1"}

\* C11: set_quorum_options succeeds iff every submitted key is one of the four
\* quorum options and every non-empty value is a non-negative integer literal
\* (last_man_standing_window) or "0"/"1" (the others); an empty value is
\* accepted; each violation is one error finding that cannot be forced.
C11_QuorumOptionValidation ==
    last.op = "set_quorum_options" =>
        LET bad == {k \in DOMAIN last.options :
                        ~QuorumOptionAccepted(k, last.options[k])}
        IN  /\ result = "ok" <=> bad = {}
            /\ Len(reports) = Cardinality(bad)
            /\ \A i \in 1..Len(reports) :
                    /\ reports[i].name \in bad
                    /\ reports[i].severity = ERROR
                    /\ reports[i].forceable = None

C11_Witness ==
    /\ last.op = "set_quorum_options"
    /\ last.options =
            ("auto_tie_breaker" :> "") @@ ("last_man_standing_window" :> "0")
    /\ LastValue(QuorumAttrs(prev), "auto_tie_breaker") = "1"
    /\ LastQuorumHas(config, "last_man_standing_window", "0")
    /\ result = "ok"
    /\ reports = <<>>

\* the value of the last attribute called name over all quorum sections of cfg
\* is value: some occurrence holds it and no occurrence follows that one
LastOccurrenceIs(cfg, name, value) ==
    LET qs == Quorums(cfg)
    IN  \E i \in 1..Len(qs) : \E j \in 1..Len(qs[i].attrs) :
            /\ qs[i].attrs[j] = <<name, value>>
            /\ \A n \in (j+1)..Len(qs[i].attrs) : qs[i].attrs[n][1] # name
            /\ \A m \in (i+1)..Len(qs) : \A n \in 1..Len(qs[m].attrs) :
                    qs[m].attrs[n][1] # name

\* a mapping with every key of options submitted non-empty mapped to the
\* submitted value and every key submitted empty removed
Updated(before, options) ==
    LET set == {k \in DOMAIN options : options[k] # ""}
        kept == DOMAIN before \ DOMAIN options
    IN  [k \in kept \cup set |-> IF k \in set THEN options[k] ELSE before[k]]

\* C12: get_quorum_options() maps each of the four recognized names found in a
\* quorum section to the value of its last occurrence in document order and
\* holds no other key; after a successful set_quorum_options(options) it is the
\* mapping before the call with every key submitted non-empty mapped to the
\* submitted value and every key submitted empty removed.
C12_ReadAfterWrite ==
    /\ DOMAIN get_quorum_options(config) =
            {k \in {"auto_tie_breaker", "last_man_standing",
                    "last_man_standing_window", "wait_for_all"} :
                ~NoQuorumHas(config, k)}
    /\ \A k \in DOMAIN get_quorum_options(config) :
            LastOccurrenceIs(config, k, get_quorum_options(config)[k])
    /\ (result = "ok" /\ last.op = "set_quorum_options") =>
            get_quorum_options(config) =
                Updated(get_quorum_options(prev), last.options)

C12_Witness ==
    /\ result = "ok"
    /\ last.op = "set_quorum_options"
    /\ last.options =
            ("auto_tie_breaker" :> "") @@ ("last_man_standing_window" :> "0")
    /\ get_quorum_options(prev) =
            ("wait_for_all" :> "1") @@ ("auto_tie_breaker" :> "0")
    /\ LastOccurrenceIs(prev, "wait_for_all", "1")
    /\ ~LastOccurrenceIs(prev, "wait_for_all", "0")
    /\ "two_node" \in AttrNames(QuorumAttrs(prev))
    /\ get_quorum_options(config) =
            ("wait_for_all" :> "1") @@ ("last_man_standing_window" :> "0")

\* the <<key, value>> pairs of the non-empty entries of options
NonEmptyItems(options) ==
    {<<k, options[k]>> : k \in {n \in DOMAIN options : options[n] # ""}}

\* attrs holds exactly the pairs of items, each once
HoldsExactly(attrs, items) ==
    /\ {attrs[i] : i \in 1..Len(attrs)} = items
    /\ Len(attrs) = Cardinality(items)

\* the pairs of items with an algorithm of lms or 2nodelms set to the one the
\* node count asks for
AlgorithmRewritten(items, nodes) ==
    {IF it[1] = "algorithm" /\ it[2] \in {"lms", "2nodelms"}
     THEN <<"algorithm", IF nodes = 2 THEN "2nodelms" ELSE "lms">>
     ELSE it : it \in items}

\* C13: after a successful add_quorum_device(model, model_options,
\* generic_options) the quorum sections hold exactly one device section; it is
\* a child of the last quorum section, its attributes are model = the submitted
\* model and the submitted non-empty generic options, and it has at most one
\* nested section, named after the model, holding the submitted non-empty model
\* options (in a net section, algorithm lms/2nodelms is rewritten to the one
\* the node count asks for); a device section that was there before the call
\* is gone.
C13_AddDevice ==
    (result = "ok" /\ IsAdd) =>
        LET qs == Quorums(config)
            devs == DeviceSections(config)
            dev == devs[1]
            wanted == IF last.model = "net"
                      THEN AlgorithmRewritten(NonEmptyItems(last.model_options),
                                              Len(get_nodes(prev)))
                      ELSE NonEmptyItems(last.model_options)
        IN  /\ Len(devs) = 1
            /\ qs # <<>>
            /\ get_sections(qs[Len(qs)], "device") = devs
            /\ HoldsExactly(dev.attrs,
                    NonEmptyItems(last.generic_options)
                        \cup {<<"model", last.model>>})
            /\ Len(dev.secs) <= 1
            /\ IF wanted = {} THEN dev.secs = <<>>
               ELSE /\ Len(dev.secs) = 1
                    /\ dev.secs[1].name = last.model
                    /\ dev.secs[1].secs = <<>>
                    /\ HoldsExactly(dev.secs[1].attrs, wanted)

C13_Witness ==
    /\ result = "ok"
    /\ IsAdd
    /\ last.model = "net"
    /\ last.model_options = ("host" :> "h")
    /\ last.generic_options = ("sync_timeout" :> "") @@ ("timeout" :> "5")
    /\ Len(Quorums(prev)) = 2
    /\ Len(DeviceSections(prev)) = 1
    /\ DeviceSections(prev)[1].attrs = << <<"timeout", "3">> >>
    /\ DeviceSections(config) =
            <<Section("device", << <<"timeout", "5">>, <<"model", "net">> >>,
                      <<Section("net", << <<"host", "h">> >>, <<>>)>>)>>

\* the quorum options add_quorum_device clears
ConflictingOptions ==
    {"allow_downscale", "auto_tie_breaker", "last_man_standing",
     "last_man_standing_window", "two_node"}

\* C14: after a successful add_quorum_device no quorum section, the last one
\* or any other, has an attribute called allow_downscale, auto_tie_breaker,
\* last_man_standing, last_man_standing_window or two_node.
C14_ConflictingOptionsCleared ==
    (result = "ok" /\ IsAdd) =>
        \A i \in 1..Len(Quorums(config)) :
            \A j \in 1..Len(Quorums(config)[i].attrs) :
                Quorums(config)[i].attrs[j][1] \notin ConflictingOptions

C14_Witness ==
    /\ result = "ok"
    /\ IsAdd
    /\ Len(Quorums(prev)) = 2
    /\ get_attributes(Quorums(prev)[1], "allow_downscale") # <<>>
    /\ get_attributes(Quorums(prev)[1], "two_node") # <<>>
    /\ get_attributes(Quorums(prev)[2], "auto_tie_breaker") # <<>>
    /\ Len(Quorums(config)) = 2
    /\ AttrNames(QuorumAttrs(config)) = {"provider", "wait_for_all"}

\* C15: after a successful remove_quorum_device no quorum section has a child
\* called device, has_quorum_device() is false, get_quorum_device_settings()
\* returns no model and two empty mappings, and a remove_quorum_device called
\* next is rejected with device-not-defined and changes nothing.
C15_RemoveDevice ==
    (result = "ok" /\ last.op = "remove_quorum_device") =>
        /\ \A i \in 1..Len(Quorums(config)) :
                \A j \in 1..Len(Quorums(config)[i].secs) :
                    Quorums(config)[i].secs[j].name # "device"
        /\ ~has_quorum_device(config)
        /\ get_quorum_device_settings(config) =
                [model |-> None, model_options |-> EmptyDict,
                 generic_options |-> EmptyDict]
        /\ remove_quorum_device(config) =
                Outcome(config, "LibraryError", <<qdevice_not_defined>>)

C15_Witness ==
    /\ result = "ok"
    /\ last.op = "remove_quorum_device"
    /\ Len(DeviceSections(prev)) = 2
    /\ get_attributes(DeviceSections(prev)[1], "model") = <<>>
    /\ get_attributes(DeviceSections(prev)[2], "model") # <<>>
    /\ DeviceSections(config) = <<>>
    /\ remove_quorum_device(config).result = "LibraryError"

\* C16: has_quorum_device() is true iff some device section that is a direct
\* child of a quorum section carries a model attribute, and in every tree it is
\* true exactly when get_quorum_device_settings() returns a model.
C16_HasDeviceEquivalence ==
    /\ has_quorum_device(config) <=> DeviceDefined(config)
    /\ has_quorum_device(config) <=>
            get_quorum_device_settings(config).model # None

\* a tree a mutation left with device sections none of which is a quorum
\* device: one under a quorum section without model, or one outside of quorum
C16_Witness ==
    /\ result = "ok"
    /\ \/ /\ DeviceSections(config) # <<>>
          /\ get_sections(DeviceSections(config)[1], "net") # <<>>
       \/ /\ get_sections(config, "device") # <<>>
          /\ get_attributes(get_sections(config, "device")[1], "model") # <<>>
    /\ ~has_quorum_device(config)
    /\ get_quorum_device_settings(config).model = None
    /\ has_quorum_device(prev)

\* C17: in the tree a successful mutation leaves, with twoNodes = (exactly 2
\* nodelist/node sections), autoTieBreaker = (the last auto_tie_breaker value
\* over all quorum sections exists and is not "0") and hasDevice =
\* has_quorum_device(): if twoNodes and neither of the others, the last quorum
\* section has two_node = "1" and no other quorum section has two_node;
\* otherwise no quorum section has two_node.  For every input tree, also one
\* with empty node sections that the same call prunes.
C17_TwoNodeRule ==
    result = "ok" =>
        LET qs == Quorums(config)
            twoNodes == Len(get_nodes(config)) = 2
            atb == LastValue(QuorumAttrs(config), "auto_tie_breaker")
            autoTieBreaker == atb # None /\ atb # "0"
            hasDevice == has_quorum_device(config)
        IN  IF twoNodes /\ ~autoTieBreaker /\ ~hasDevice
            THEN /\ LastQuorumHas(config, "two_node", "1")
                 /\ \A i \in 1..(Len(qs) - 1) :
                        get_attributes(qs[i], "two_node") = <<>>
            ELSE NoQuorumHas(config, "two_node")

\* C18: a successful mutation rewrites, in every net section under a
\* quorum/device section, algorithm "lms" to "2nodelms" when there are exactly
\* 2 nodes and "2nodelms" to "lms" when there are not, and leaves every other
\* value (ffsplit, a forced invalid value, none) as it is; so after a
\* successful mutation no such net section has "lms" with exactly 2 nodes or
\* "2nodelms" with another node count, whatever the caller submitted.
C18_AlgorithmRule ==
    result = "ok" =>
        /\ \A i \in 1..Len(Algorithms(config)) :
              /\ ~( /\ Algorithms(config)[i] = "lms"
                    /\ Len(get_nodes(config)) = 2 )
              /\ ~( /\ Algorithms(config)[i] = "2nodelms"
                    /\ Len(get_nodes(config)) # 2 )
        /\ KeptAlgorithm =>
              /\ Len(Algorithms(config)) = Len(Algorithms(prev))
              /\ \A i \in 1..Len(Algorithms(prev)) :
                    Algorithms(prev)[i] \notin {"lms", "2nodelms"} =>
                        Algorithms(config)[i] = Algorithms(prev)[i]
        /\ ( /\ last.op \in {"add_quorum_device", "update_quorum_device"}
             /\ "algorithm" \in DOMAIN last.model_options
             /\ last.model_options["algorithm"] \notin {"", "lms", "2nodelms"}
             /\ get_quorum_device_settings(config).model = "net" ) =>
                /\ Algorithms(config) # <<>>
                /\ Algorithms(config)[Len(Algorithms(config))] =
                        last.model_options["algorithm"]

\* the last call was update_quorum_device on a tree whose device model is net
IsNetUpdate == last.op = "update_quorum_device" /\ DeviceModel(prev) = "net"

\* some report is a missing-required-option finding for host
HostMissingReported ==
    \E i \in 1..Len(reports) :
        /\ reports[i].code = "REQUIRED_OPTION_IS_MISSING"
        /\ reports[i].name = "host"

\* C19: update_quorum_device on a net device never reports host as missing
\* when model_options has no host key; when host is submitted with the empty
\* value it reports an error-severity, unforceable missing-required-option
\* finding whatever force_options is, and aborts; an update never deletes the
\* stored host.
C19_UpdateRequiredOption ==
    IsNetUpdate =>
        /\ "host" \notin DOMAIN last.model_options => ~HostMissingReported
        /\ ( /\ "host" \in DOMAIN last.model_options
             /\ last.model_options["host"] = "" ) =>
                /\ \E i \in 1..Len(reports) :
                        reports[i] = [code |-> "REQUIRED_OPTION_IS_MISSING",
                                      severity |-> ERROR, forceable |-> None,
                                      name |-> "host"]
                /\ result = "LibraryError"
                /\ config = prev
        /\ "host" \in DOMAIN get_quorum_device_settings(prev).model_options =>
                /\ "host" \in DOMAIN get_quorum_device_settings(config).model_options
                /\ get_quorum_device_settings(config).model_options["host"] # ""

C19_Witness ==
    /\ IsNetUpdate
    /\ last.model_options = ("host" :> "")
    /\ last.force_options
    /\ "host" \in DOMAIN get_quorum_device_settings(prev).model_options
    /\ result = "LibraryError"
    /\ HasReport("REQUIRED_OPTION_IS_MISSING", "host", ERROR)
    /\ get_quorum_device_settings(config).model_options["host"] = "h"

\* the last step validated net model options
IsNetValidation ==
    last.op \in {"validate_net_options", "validate_net_options_required"}

\* the findings reported for the option called name
FindingsFor(name) == SelectSeq(reports, LAMBDA r : r.name = name)

\* the non-empty values of the four checked net options that the
\* specification accepts without a finding
NetValueAccepted(name, value) ==
    CASE name = "connect_timeout" ->
            LiteralValue[value] >= 1000 /\ LiteralValue[value] <= 120000
      [] name = "port" ->
            LiteralValue[value] >= 1 /\ LiteralValue[value] <= 65535
      [] name = "force_ip_version" -> value \in {"0", "4", "6"}
      [] name = "algorithm" -> value \in {"2nodelms", "ffsplit", "lms"}

\* C20: a non-empty connect_timeout is accepted without a finding iff it is a
\* decimal integer literal in 1000..120000, a non-empty port iff in 1..65535,
\* force_ip_version iff one of "0", "4", "6", algorithm iff one of "2nodelms",
\* "ffsplit", "lms"; each violation yields exactly one invalid-value finding,
\* an error without force_options and a warning with it; a key outside {host,
\* algorithm, connect_timeout, force_ip_version, port, tie_breaker} yields one
\* forceable unknown-option finding and no value finding.
C20_NetOptionRanges ==
    IsNetValidation =>
        \A k \in DOMAIN last.model_options :
            LET v == last.model_options[k]
                severity == IF last.force_options THEN WARNING ELSE ERROR
                forceable == IF last.force_options THEN None ELSE "FORCE_OPTIONS"
            IN  /\ ( /\ k \in {"connect_timeout", "port", "force_ip_version",
                               "algorithm"}
                     /\ v # "" ) =>
                        /\ FindingsFor(k) = <<>> <=> NetValueAccepted(k, v)
                        /\ ~NetValueAccepted(k, v) =>
                              FindingsFor(k) =
                                  << [code |-> "INVALID_OPTION_VALUE",
                                      severity |-> severity,
                                      forceable |-> forceable, name |-> k] >>
                /\ k \notin {"host", "algorithm", "connect_timeout",
                             "force_ip_version", "port", "tie_breaker"} =>
                        FindingsFor(k) =
                            << [code |-> "INVALID_OPTION",
                                severity |-> severity,
                                forceable |-> forceable, name |-> k] >>

C20_Witness ==
    /\ IsNetValidation
    /\ last.model_options = ("connect_timeout" :> "120001")
    /\ last.force_options
    /\ FindingsFor("connect_timeout") =
            <<invalid_option_value("connect_timeout", WARNING, None)>>

\* the nodeid values of the nodelist/node sections that have one
NodeIds(cfg) ==
    LET nodelists == get_sections(cfg, "nodelist")
        nodes == Flatten([i \in 1..Len(nodelists) |->
                            get_sections(nodelists[i], "node")])
    IN  {LastValue(nodes[i].attrs, "nodeid") :
            i \in {j \in 1..Len(nodes) : get_attributes(nodes[j], "nodeid") # <<>>}}

\* C21: a non-empty tie_breaker is accepted without a finding iff it is
\* "lowest", "highest" or the nodeid of a node of the tree the validation runs
\* on (a node without nodeid contributes no id); otherwise it yields one
\* forceable invalid-value finding.  The ids are read from the current tree at
\* every call.
C21_TieBreaker ==
    ( /\ IsNetValidation
      /\ "tie_breaker" \in DOMAIN last.model_options
      /\ last.model_options["tie_breaker"] # "" ) =>
        LET v == last.model_options["tie_breaker"]
        IN  IF v \in {"lowest", "highest"} \cup NodeIds(config)
            THEN FindingsFor("tie_breaker") = <<>>
            ELSE FindingsFor("tie_breaker") =
                    << [code |-> "INVALID_OPTION_VALUE",
                        severity |-> IF last.force_options
                                     THEN WARNING ELSE ERROR,
                        forceable |-> IF last.force_options
                                      THEN None ELSE "FORCE_OPTIONS",
                        name |-> "tie_breaker"] >>

\* tie_breaker "3" is refused on a tree of two nodes and a node section
\* without nodeid, after the tree of three nodes that accepted it was replaced
C21_Witness ==
    /\ IsNetValidation
    /\ last.model_options = ("tie_breaker" :> "3")
    /\ ~last.force_options
    /\ NodeIds(prev) = {"1", "2", "3"}
    /\ validate_quorum_device_model_net_options(
            prev, last.model_options, FALSE, FALSE) = <<>>
    /\ NodeIds(config) = {"1", "2"}
    /\ Len(get_nodes(config)) = 3
    /\ FindingsFor("tie_breaker") =
            <<invalid_option_value("tie_breaker", ERROR, "FORCE_OPTIONS")>>

\* the last call was add_quorum_device or update_quorum_device
IsAddOrUpdate == last.op \in {"add_quorum_device", "update_quorum_device"}

\* the call got past its device precondition and validated its arguments
ArgumentsValidated ==
    \/ last.op = "add_quorum_device" /\ ~has_quorum_device(prev)
    \/ last.op = "update_quorum_device" /\ has_quorum_device(prev)

\* the findings about the generic option called name (the finding about the
\* model argument of add_quorum_device is an invalid-value one)
GenericFindingsFor(name) ==
    SelectSeq(reports,
              LAMBDA r : r.name = name
                         /\ ~(name = "model" /\ r.code = "INVALID_OPTION_VALUE"))

\* C22: in generic_options only sync_timeout and timeout are allowed; the key
\* model always yields an error-severity unknown-option finding that cannot be
\* forced, so add and update abort and leave the tree (and the device's model
\* attribute) alone; any other unknown key yields one unknown-option finding,
\* an error without force_options and a warning with it; a non-empty value of
\* an allowed key that is no non-negative integer literal yields one forceable
\* invalid-value finding; nothing else is reported about generic options.
C22_GenericOptions ==
    IsAddOrUpdate =>
        /\ "model" \in DOMAIN last.generic_options =>
                result = "LibraryError" /\ config = prev
        /\ ArgumentsValidated =>
            \A k \in DOMAIN last.generic_options :
                LET v == last.generic_options[k]
                    severity == IF last.force_options THEN WARNING ELSE ERROR
                    forceable == IF last.force_options
                                 THEN None ELSE "FORCE_OPTIONS"
                IN  GenericFindingsFor(k) =
                        IF k = "model"
                        THEN << [code |-> "INVALID_OPTION", severity |-> ERROR,
                                 forceable |-> None, name |-> k] >>
                        ELSE IF k \notin {"sync_timeout", "timeout"}
                        THEN << [code |-> "INVALID_OPTION",
                                 severity |-> severity,
                                 forceable |-> forceable, name |-> k] >>
                        ELSE IF v # "" /\ LiteralValue[v] < 0
                        THEN << [code |-> "INVALID_OPTION_VALUE",
                                 severity |-> severity,
                                 forceable |-> forceable, name |-> k] >>
                        ELSE <<>>

C22_Witness ==
    /\ last.op = "update_quorum_device"
    /\ has_quorum_device(prev)
    /\ last.generic_options = ("model" :> "")
    /\ last.force_options
    /\ reports = <<invalid_option("model", ERROR, None)>>
    /\ result = "LibraryError"
    /\ get_quorum_device_settings(config).model = "net"

\* in the sections secs, read in order, the last attribute called name has
\* that value
LastAttrIs(secs, name, value) ==
    \E i \in 1..Len(secs) : \E j \in 1..Len(secs[i].attrs) :
        /\ secs[i].attrs[j] = <<name, value>>
        /\ \A n \in (j+1)..Len(secs[i].attrs) : secs[i].attrs[n][1] # name
        /\ \A m \in (i+1)..Len(secs) : \A n \in 1..Len(secs[m].attrs) :
                secs[m].attrs[n][1] # name

\* the attribute names found in the sections secs
NamesIn(secs) ==
    UNION {AttrNames(secs[i].attrs) : i \in 1..Len(secs)}

\* C23: get_quorum_device_settings() reads all device sections under all
\* quorum sections in document order: model is the last model attribute seen
\* (none if there is none), generic_options maps every other device attribute
\* name to its last value, and model_options holds the attributes of the nested
\* sections named after that model, the last value of each name, and nothing
\* of a nested section with another name.
C23_DeviceSettings ==
    LET settings == get_quorum_device_settings(config)
        qs == Quorums(config)
        devs == Flatten([i \in 1..Len(qs) |->
                    SelectSeq(qs[i].secs, LAMBDA s : s.name = "device")])
        nested == SelectSeq(Flatten([i \in 1..Len(devs) |-> devs[i].secs]),
                            LAMBDA s : s.name = settings.model)
    IN  /\ IF "model" \in NamesIn(devs)
           THEN LastAttrIs(devs, "model", settings.model)
           ELSE settings.model = None
        /\ DOMAIN settings.generic_options = NamesIn(devs) \ {"model"}
        /\ \A n \in DOMAIN settings.generic_options :
                LastAttrIs(devs, n, settings.generic_options[n])
        /\ DOMAIN settings.model_options = NamesIn(nested)
        /\ \A n \in DOMAIN settings.model_options :
                LastAttrIs(nested, n, settings.model_options[n])

\* two device sections, the first without model, the second with a nested
\* section of another name, read after a call
C23_Witness ==
    /\ result = "ok"
    /\ Len(DeviceSections(config)) = 2
    /\ get_attributes(DeviceSections(config)[1], "timeout") = << <<"timeout", "7">> >>
    /\ get_sections(DeviceSections(config)[2], "heuristics") # <<>>
    /\ get_quorum_device_settings(config) =
            [model |-> "net",
             model_options |-> ("port" :> "7") @@ ("host" :> "h")
                               @@ ("algorithm" :> "ffsplit"),
             generic_options |-> ("timeout" :> "3")]

\* a mapping with algorithm lms/2nodelms set to the one the node count asks for
RewriteAlgorithm(options, nodes) ==
    [k \in DOMAIN options |->
        IF k = "algorithm" /\ options[k] \in {"lms", "2nodelms"}
        THEN IF nodes = 2 THEN "2nodelms" ELSE "lms"
        ELSE options[k]]

\* C24: after a successful update_quorum_device(model_options,
\* generic_options) every submitted generic key is absent from every device
\* section but the last, which holds the submitted value (nothing when it was
\* submitted empty); every submitted model-option key is held only by the last
\* nested section named after the device's model (nowhere when submitted
\* empty), algorithm lms/2nodelms of a net section being rewritten; keys not
\* submitted keep their values, and get_quorum_device_settings() returns the
\* settings before the call updated by the submitted values.
C24_UpdateMerge ==
    (result = "ok" /\ last.op = "update_quorum_device") =>
        LET before == get_quorum_device_settings(prev)
            after == get_quorum_device_settings(config)
            nodes == Len(get_nodes(prev))
            Rewritten(options) ==
                IF before.model = "net"
                THEN RewriteAlgorithm(options, nodes) ELSE options
            devs == DeviceSections(config)
            nets == SelectSeq(Flatten([i \in 1..Len(devs) |-> devs[i].secs]),
                              LAMBDA s : s.name = before.model)
            submitted == Rewritten(last.model_options)
        IN  /\ \A k \in DOMAIN last.generic_options :
                /\ \A i \in 1..(Len(devs) - 1) : get_attributes(devs[i], k) = <<>>
                /\ IF last.generic_options[k] # ""
                   THEN /\ devs # <<>>
                        /\ get_attributes(devs[Len(devs)], k) =
                                << <<k, last.generic_options[k]>> >>
                   ELSE \A i \in 1..Len(devs) : get_attributes(devs[i], k) = <<>>
            /\ \A k \in DOMAIN submitted :
                /\ \A i \in 1..(Len(nets) - 1) : get_attributes(nets[i], k) = <<>>
                /\ IF submitted[k] # ""
                   THEN /\ nets # <<>>
                        /\ get_attributes(nets[Len(nets)], k) =
                                << <<k, submitted[k]>> >>
                   ELSE \A i \in 1..Len(nets) : get_attributes(nets[i], k) = <<>>
            /\ after.model = before.model
            /\ after.generic_options =
                    Updated(before.generic_options, last.generic_options)
            /\ after.model_options =
                    Rewritten(Updated(before.model_options, last.model_options))

C24_Witness ==
    /\ result = "ok"
    /\ last.op = "update_quorum_device"
    /\ last.model_options = ("port" :> "7")
    /\ last.generic_options = ("timeout" :> "5")
    /\ Len(DeviceSections(prev)) = 2
    /\ get_attributes(DeviceSections(prev)[1], "timeout") # <<>>
    /\ get_quorum_device_settings(prev).generic_options = ("timeout" :> "3")
    /\ get_quorum_device_settings(config) =
            [model |-> "net",
             model_options |-> ("port" :> "7") @@ ("host" :> "h")
                               @@ ("algorithm" :> "ffsplit"),
             generic_options |-> ("timeout" :> "5")]

\* the finding about the model argument of add_quorum_device
IsModelFinding(r) == r.code = "INVALID_OPTION_VALUE" /\ r.name = "model"

\* the last call was an add_quorum_device that validated its arguments
IsValidatedAdd == IsAdd /\ ~has_quorum_device(prev)

\* C25: in add_quorum_device force_model decides the severity of the
\* invalid-model finding and of nothing else, and force_options decides the
\* severity of the forceable model-option and generic-option findings and of
\* nothing else; an invalid model without force_model aborts whatever
\* force_options is, and a valid model with an out-of-range option without
\* force_options aborts whatever force_model is; the tree is then unchanged.
C25_IndependentForceFlags ==
    IsValidatedAdd =>
        LET others == SelectSeq(reports, LAMBDA r : ~IsModelFinding(r))
            flipped(fm, fo) ==
                add_quorum_device(prev, last.model, last.model_options,
                                  last.generic_options, fm, fo).reports
        IN  /\ \A i \in 1..Len(reports) :
                IF IsModelFinding(reports[i])
                THEN reports[i].severity =
                        IF last.force_model THEN WARNING ELSE ERROR
                ELSE \/ reports[i].forceable = None /\ reports[i].severity = ERROR
                     \/ reports[i].severity =
                            IF last.force_options THEN WARNING ELSE ERROR
            /\ SelectSeq(flipped(~last.force_model, last.force_options),
                         LAMBDA r : ~IsModelFinding(r)) = others
            /\ SelectSeq(flipped(last.force_model, ~last.force_options),
                         IsModelFinding) = SelectSeq(reports, IsModelFinding)
            /\ (last.model # "net" /\ ~last.force_model) =>
                    result = "LibraryError" /\ config = prev
            /\ ( /\ last.model = "net"
                 /\ "port" \in DOMAIN last.model_options
                 /\ last.model_options["port"] = "65536"
                 /\ ~last.force_options ) =>
                    result = "LibraryError" /\ config = prev

C25_Witness ==
    /\ IsValidatedAdd
    /\ last.model = "net"
    /\ last.model_options = ("host" :> "h") @@ ("port" :> "65536")
    /\ last.force_model
    /\ ~last.force_options
    /\ reports = <<invalid_option_value("port", ERROR, "FORCE_OPTIONS")>>
    /\ result = "LibraryError"
    /\ config = prev

\* C26: in every state reached from a tree without a quorum device by any
\* sequence of facade calls, successful or rejected, whenever
\* has_quorum_device() is true no quorum section holds allow_downscale,
\* auto_tie_breaker, last_man_standing, last_man_standing_window or two_node.
C26_NoConflictingOptionsWithDevice ==
    has_quorum_device(config) =>
        AttrNames(QuorumAttrs(config)) \cap ConflictingOptions = {}

\* C27: in every state reached from a tree without a device section by any
\* sequence of facade calls, the quorum sections hold at most one device
\* section; it is a child of the last quorum section and carries exactly one
\* model attribute; has_quorum_device() is true iff a device section exists.
C27_SingleDevice ==
    LET qs == Quorums(config)
        devs == Flatten([i \in 1..Len(qs) |->
                    SelectSeq(qs[i].secs, LAMBDA s : s.name = "device")])
    IN  /\ Len(devs) <= 1
        /\ has_quorum_device(config) <=> devs # <<>>
        /\ devs # <<>> =>
                /\ SelectSeq(qs[Len(qs)].secs, LAMBDA s : s.name = "device") = devs
                /\ Len(SelectSeq(devs[1].attrs, LAMBDA a : a[1] = "model")) = 1

C27_Witness ==
    /\ calls = 2
    /\ result = "ok"
    /\ last.op = "set_quorum_options"
    /\ last.options = ("wait_for_all" :> "1")
    /\ Len(Quorums(config)) = 2
    /\ Quorums(config)[1].secs = <<>>
    /\ Len(DeviceSections(config)) = 1
    /\ get_attributes(DeviceSections(config)[1], "model") = << <<"model", "net">> >>

\* some quorum/device section with a model attribute has a nested net section
\* with a non-empty host attribute
NetDeviceHasHost(cfg) ==
    \E i \in 1..Len(DeviceSections(cfg)) :
        LET dev == DeviceSections(cfg)[i]
        IN  /\ get_attributes(dev, "model") # <<>>
            /\ \E j \in 1..Len(dev.secs) :
                    /\ dev.secs[j].name = "net"
                    /\ \E n \in 1..Len(dev.secs[j].attrs) :
                            /\ dev.secs[j].attrs[n][1] = "host"
                            /\ dev.secs[j].attrs[n][2] # ""

\* C28: in every state reached from a tree without a quorum device by any
\* sequence of facade calls with any force flags, a device whose model is
\* "net" has a nested net section with a non-empty host attribute.
C28_HostNeverLost ==
    get_quorum_device_settings(config).model = "net" => NetDeviceHasHost(config)

C28_Witness ==
    /\ calls = 2
    /\ result = "LibraryError"
    /\ last.op = "update_quorum_device"
    /\ last.model_options = ("host" :> "")
    /\ last.force_options
    /\ get_quorum_device_settings(config).model = "net"
    /\ NetDeviceHasHost(config)

IsQuorumMutation ==
    last.op \in {"set_quorum_options", "add_quorum_device",
                 "update_quorum_device", "remove_quorum_device"}

\* C29: get_nodes() returns the same sequence of node entries immediately
\* before and immediately after any call of set_quorum_options,
\* add_quorum_device, update_quorum_device or remove_quorum_device, whether
\* the call succeeds or is rejected.
C29_NodeListUntouched ==
    (calls > 0 /\ IsQuorumMutation) => get_nodes(config) = get_nodes(prev)

\* the same frame condition for calls on a tree that holds no empty section
C29_NodeListUntouched_NoEmptySection ==
    (calls > 0 /\ IsQuorumMutation /\ ~HasEmptySection(prev))
        => get_nodes(config) = get_nodes(prev)

C29_Witness ==
    /\ calls > 0
    /\ last.op = "add_quorum_device"
    /\ result = "ok"
    /\ ~HasEmptySection(prev)
    /\ Len(get_nodes(prev)) = 3
    /\ get_nodes(config) = get_nodes(prev)

\* the daemons whose facade could not be built, as the report items of this
\* run name them
ReportedDaemons ==
    LET mine == SelectSeq(report_processor.report_list,
                          LAMBDA r : r.agent # None)
    IN  [i \in 1..Len(mine) |-> mine[i].agent]

ErrorReportsFor(daemon) ==
    Len(SelectSeq(report_processor.report_list,
                  LAMBDA r : r.agent = daemon /\ r.severity = "ERROR"))

FacadesFor(daemon) ==
    Len(SelectSeq(cluster_property_facade_list, LAMBDA f : f.agent = daemon))

IsPrefix(s, t) ==
    /\ Len(s) <= Len(t)
    /\ \A i \in 1..Len(s) : s[i] = t[i]

AllFacades ==
    [i \in 1..Len(pacemaker_daemons) |-> ResourceAgentFacade(pacemaker_daemons[i])]

\* C30: _get_property_facade_list asks the factory for based, controld and
\* schedulerd in that order, also after an earlier one failed; every failing
\* daemon has exactly one error report and no facade, every other attempted
\* daemon one facade and no report; LibraryError is raised only after all three
\* attempts and exactly when the report processor has errors; a returned list
\* holds the three facades in daemon order.
C30_FacadeList ==
    /\ IsPrefix(attempted, pacemaker_daemons)
    /\ pc \in {"has_errors", "LibraryError", "return", "done"}
            => attempted = pacemaker_daemons
    /\ \A i \in 1..Len(attempted) :
            LET daemon == attempted[i]
            IN  \/ FacadesFor(daemon) = 1 /\ ErrorReportsFor(daemon) = 0
                \/ FacadesFor(daemon) = 0 /\ ErrorReportsFor(daemon) = 1
    /\ \A i \in 1..Len(pacemaker_daemons) :
            i > Len(attempted)
                => /\ FacadesFor(pacemaker_daemons[i]) = 0
                   /\ ErrorReportsFor(pacemaker_daemons[i]) = 0
    /\ pc = "LibraryError" => report_processor.has_errors
    /\ pc \in {"return", "done"}
            => /\ ~report_processor.has_errors
               /\ cluster_property_facade_list = AllFacades
    /\ pc = "done" => property_dict = pacemaker_daemons

C30_Witness ==
    /\ pc = "LibraryError"
    /\ attempted = pacemaker_daemons
    /\ ReportedDaemons = <<"pacemaker-based">>
    /\ cluster_property_facade_list =
            <<ResourceAgentFacade("pacemaker-controld"),
              ResourceAgentFacade("pacemaker-schedulerd")>>

====
